---- MODULE Spec2Model ----
(***************************************************************************)
(* Desktop shell host (apps/desktop/src-tauri/src/main.rs): the bootstrap  *)
(* in main() and the two bridge commands check_backend_health and          *)
(* get_backend_url, with the async runtime's interleaving of invocations.  *)
(***************************************************************************)
EXTENDS Integers, Sequences, FiniteSets, TLC

VARIABLES
    debug_assertions,   \* build configuration: cfg(debug_assertions)
    phase,              \* position of main(): start, initialized, running, exited, panicked
    initAttempts,       \* how many times the runtime was initialised by run()
    runResult,          \* what run() returned to .expect(): none, Ok, Err
    panicMessage,       \* text the process panicked with ("" when it did not)
    windowShown,        \* the main window is on screen
    devtoolsOpen,       \* window.open_devtools() was called on the main window
    tasks,              \* check_backend_health invocations, in the order they started
    urlCalls,           \* completed get_backend_url calls
    urlReturned,        \* value the latest get_backend_url call returned
    eventsHandled       \* window events the event loop has processed

vars == <<debug_assertions, phase, initAttempts, runResult, panicMessage,
          windowShown, devtoolsOpen, tasks, urlCalls, urlReturned, eventsHandled>>

hostVars == <<debug_assertions, phase, initAttempts, runResult, panicMessage,
              windowShown, devtoolsOpen, urlCalls, urlReturned, eventsHandled>>

-----------------------------------------------------------------------------
(* Bounds of the model *)

MaxInvocations == 2
MaxUrlCalls == 2
MaxEvents == 1

-----------------------------------------------------------------------------
(* Strings *)

Contains(s, sub) ==
    \E i \in 1..(Len(s) - Len(sub) + 1) : SubSeq(s, i, i + Len(sub) - 1) = sub

DigitChar(d) ==
    CASE d = 0 -> "0" [] d = 1 -> "1" [] d = 2 -> "2" [] d = 3 -> "3"
      [] d = 4 -> "4" [] d = 5 -> "5" [] d = 6 -> "6" [] d = 7 -> "7"
      [] d = 8 -> "8" [] d = 9 -> "9"

RECURSIVE U16Display(_)
U16Display(n) ==
    IF n < 10 THEN DigitChar(n)
    ELSE U16Display(n \div 10) \o DigitChar(n % 10)

-----------------------------------------------------------------------------
(* What the backend, or the transport, can answer to one GET *)

\* Status codes a response can carry, around the edges of the 2xx range.
Statuses == {101, 199, 200, 204, 299, 300, 404, 503, 999}

\* Display text of the reqwest::Error of a failed GET.
TransportErrors ==
    { "error sending request: connection refused",
      "error sending request: dns error",
      "error sending request: operation timed out" }

NoAnswer == [kind |-> "none", status |-> 0, error |-> ""]

Answers ==
    [kind : {"response"}, status : Statuses, error : {""}]
      \cup [kind : {"error"}, status : {0}, error : TransportErrors]

-----------------------------------------------------------------------------
(* check_backend_health *)

HealthUrlOtherHost == "http://localhost:8420/health"

HealthUrl == "http://127.0.0.1:8420/health"

is_success_only_200(status) == status = 200

is_success(status) == 200 <= status /\ status < 300

canonical_reason(status) ==
    CASE status = 101 -> "Switching Protocols"
      [] status = 200 -> "OK"
      [] status = 204 -> "No Content"
      [] status = 300 -> "Multiple Choices"
      [] status = 404 -> "Not Found"
      [] status = 503 -> "Service Unavailable"
      [] OTHER -> "<unknown status code>"

StatusDisplayReasonOnly(status) == canonical_reason(status)

\* format!("{}", response.status())
StatusDisplay(status) == U16Display(status) \o " " \o canonical_reason(status)

Ok(v) == [tag |-> "Ok", val |-> v]
Err(v) == [tag |-> "Err", val |-> v]
NoResult == [tag |-> "none", val |-> ""]

ConnectionFailedNoCause(e) == Err("Backend connection failed")

ConnectionFailed(e) == Err("Backend connection failed: " \o e)

\* A variant sharing one connection: a command that finds another in flight fails.
HealthResultShared(answer) ==
    IF Cardinality({i \in 1..Len(tasks) : tasks[i].pc = "awaiting"}) > 1
    THEN Err("Backend connection failed: busy")
    ELSE IF answer.kind = "response"
         THEN IF is_success(answer.status)
              THEN Ok("Backend is healthy")
              ELSE Err("Backend returned status: " \o StatusDisplay(answer.status))
         ELSE ConnectionFailed(answer.error)

\* The match on what the awaited GET resolved to.
HealthResult(answer) ==
    IF answer.kind = "response"
    THEN IF is_success(answer.status)
         THEN Ok("Backend is healthy")
         ELSE Err("Backend returned status: " \o StatusDisplay(answer.status))
    ELSE ConnectionFailed(answer.error)

NewTask ==
    [pc |-> "awaiting", url |-> HealthUrl, requests |-> 1,
     answer |-> NoAnswer, result |-> NoResult]

AfterAnswerRetry(task, answer) ==
    IF HealthResult(answer).tag = "Err" /\ task.requests < 2
    THEN [task EXCEPT !.requests = @ + 1, !.answer = answer]
    ELSE [task EXCEPT !.pc = "done", !.answer = answer,
                      !.result = HealthResult(answer)]

\* The task once its GET has resolved: it returns, sending nothing more.
AfterAnswer(task, answer) ==
    [task EXCEPT !.pc = "done", !.answer = answer, !.result = HealthResult(answer)]

Awaiting == {i \in 1..Len(tasks) : tasks[i].pc = "awaiting"}
Done == {i \in 1..Len(tasks) : tasks[i].pc = "done"}

DispatchableBlocking == phase = "running" /\ Awaiting = {}

\* The host serves bridge commands and window events while it runs; a
\* suspended async command holds nothing the others need.
Dispatchable == phase = "running"

check_backend_health_call ==
    /\ Dispatchable
    /\ Len(tasks) < MaxInvocations
    /\ tasks' = Append(tasks, NewTask)
    /\ UNCHANGED hostVars

check_backend_health_resume(i, answer) ==
    /\ phase = "running"
    /\ i \in Awaiting
    /\ tasks' = [tasks EXCEPT ![i] = AfterAnswer(tasks[i], answer)]
    /\ UNCHANGED hostVars

-----------------------------------------------------------------------------
(* get_backend_url *)

BackendUrlOtherHost == "http://localhost:8420"

BackendUrl == "http://127.0.0.1:8420"

get_backend_url ==
    /\ Dispatchable
    /\ urlCalls < MaxUrlCalls
    /\ urlReturned' = BackendUrl
    /\ urlCalls' = urlCalls + 1
    /\ UNCHANGED <<debug_assertions, phase, initAttempts, runResult, panicMessage,
                   windowShown, devtoolsOpen, tasks, eventsHandled>>

-----------------------------------------------------------------------------
(* main *)

ExpectMessage == "error while running tauri application"

\* Debug text of the tauri error run() can fail with while initialising.
InitErrors == {"CreateWindow", "CreateWebview"}

\* Window labels of the bundled configuration.
ConfigWindows == {"main"}

run_init_ok ==
    /\ phase = "start"
    /\ phase' = "initialized"
    /\ initAttempts' = initAttempts + 1
    /\ UNCHANGED <<debug_assertions, runResult, panicMessage, windowShown,
                   devtoolsOpen, tasks, urlCalls, urlReturned, eventsHandled>>

run_init_err_ignored ==
    /\ phase = "start"
    /\ \E e \in InitErrors :
        /\ phase' = "exited"
        /\ runResult' = "Err"
        /\ initAttempts' = initAttempts + 1
    /\ UNCHANGED <<debug_assertions, panicMessage, windowShown, devtoolsOpen,
                   tasks, urlCalls, urlReturned, eventsHandled>>

\* run() returns Err and .expect() panics with its message and the error.
run_init_err ==
    /\ phase = "start"
    /\ \E e \in InitErrors :
        /\ phase' = "panicked"
        /\ runResult' = "Err"
        /\ panicMessage' = ExpectMessage \o ": " \o e
        /\ initAttempts' = initAttempts + 1
    /\ UNCHANGED <<debug_assertions, windowShown, devtoolsOpen,
                   tasks, urlCalls, urlReturned, eventsHandled>>

setup_always_devtools ==
    /\ phase = "initialized"
    /\ devtoolsOpen' = TRUE
    /\ phase' = "running"
    /\ windowShown' = TRUE
    /\ UNCHANGED <<debug_assertions, initAttempts, runResult, panicMessage,
                   tasks, urlCalls, urlReturned, eventsHandled>>

\* The setup hook, then the window is shown and the event loop runs.
setup ==
    /\ phase = "initialized"
    /\ IF debug_assertions /\ "main" \notin ConfigWindows
       THEN /\ phase' = "panicked"
            /\ panicMessage' = "called Option::unwrap() on a None value"
            /\ UNCHANGED <<devtoolsOpen, windowShown>>
       ELSE /\ devtoolsOpen' = debug_assertions
            /\ phase' = "running"
            /\ windowShown' = TRUE
            /\ UNCHANGED panicMessage
    /\ UNCHANGED <<debug_assertions, initAttempts, runResult,
                   tasks, urlCalls, urlReturned, eventsHandled>>

event_loop_step ==
    /\ Dispatchable
    /\ eventsHandled < MaxEvents
    /\ eventsHandled' = eventsHandled + 1
    /\ UNCHANGED <<debug_assertions, phase, initAttempts, runResult, panicMessage,
                   windowShown, devtoolsOpen, tasks, urlCalls, urlReturned>>

\* The window is closed: run() returns Ok(()) and main returns.
run_exit ==
    /\ Dispatchable
    /\ phase' = "exited"
    /\ runResult' = "Ok"
    /\ windowShown' = FALSE
    /\ UNCHANGED <<debug_assertions, initAttempts, panicMessage, devtoolsOpen,
                   tasks, urlCalls, urlReturned, eventsHandled>>

-----------------------------------------------------------------------------

Init ==
    /\ debug_assertions \in BOOLEAN
    /\ phase = "start"
    /\ initAttempts = 0
    /\ runResult = "none"
    /\ panicMessage = ""
    /\ windowShown = FALSE
    /\ devtoolsOpen = FALSE
    /\ tasks = <<>>
    /\ urlCalls = 0
    /\ urlReturned = ""
    /\ eventsHandled = 0

Resume == \E i \in 1..Len(tasks) : \E answer \in Answers :
              check_backend_health_resume(i, answer)

Next ==
    \/ run_init_ok
    \/ run_init_err
    \/ setup
    \/ event_loop_step
    \/ run_exit
    \/ get_backend_url
    \/ check_backend_health_call
    \/ Resume

Spec == Init /\ [][Next]_vars

-----------------------------------------------------------------------------
(* Properties *)

\* C1: every invocation whose GET was answered with a status in [200,299]
\* returns Ok("Backend is healthy"), never a failure.
C1_SuccessStatusIsHealthy ==
    \A i \in Done :
        (tasks[i].answer.kind = "response"
            /\ tasks[i].answer.status >= 200 /\ tasks[i].answer.status <= 299)
        => tasks[i].result = [tag |-> "Ok", val |-> "Backend is healthy"]

C1_Witness ==
    \E i \in Done : /\ tasks[i].answer.kind = "response"
                    /\ tasks[i].answer.status = 299
                    /\ tasks[i].result.tag = "Ok"

\* C2: every invocation whose GET was answered with a status outside
\* [200,299] returns a failure whose message contains the decimal status code.
C2_OtherStatusIsFailureWithCode ==
    \A i \in Done :
        (tasks[i].answer.kind = "response"
            /\ (tasks[i].answer.status < 200 \/ tasks[i].answer.status > 299))
        => /\ tasks[i].result.tag = "Err"
           /\ Contains(tasks[i].result.val, U16Display(tasks[i].answer.status))
           /\ (tasks[i].answer.status = 503 => Contains(tasks[i].result.val, "503"))

C2_Witness ==
    \E i \in Done : /\ tasks[i].answer.kind = "response"
                    /\ tasks[i].answer.status = 503
                    /\ tasks[i].result.tag = "Err"
                    /\ Contains(tasks[i].result.val, "503")

\* C3: every invocation whose GET failed in the transport completes with a
\* failure whose message contains the error's non-empty description, and the
\* host process has not panicked.
C3_TransportErrorIsFailure ==
    \A i \in Done :
        tasks[i].answer.kind = "error"
        => /\ tasks[i].result.tag = "Err"
           /\ Len(tasks[i].answer.error) > 0
           /\ Contains(tasks[i].result.val, tasks[i].answer.error)
           /\ phase # "panicked"
           /\ panicMessage = ""

C3_Witness ==
    \E i \in Done : /\ tasks[i].answer.kind = "error"
                    /\ tasks[i].result.tag = "Err"
                    /\ Contains(tasks[i].result.val, "connection refused")

\* C4: get_backend_url can be called whenever the host runs, returns exactly
\* "http://127.0.0.1:8420" whatever probes and earlier calls happened, and
\* a call changes nothing but the count of calls and the value returned.
C4_BackendUrlFixed ==
    /\ [](urlCalls > 0 => urlReturned = "http://127.0.0.1:8420")
    /\ []((phase = "running" /\ urlCalls < MaxUrlCalls) => ENABLED get_backend_url)
    /\ [][urlCalls' # urlCalls =>
            /\ urlReturned' = "http://127.0.0.1:8420"
            /\ UNCHANGED <<debug_assertions, phase, initAttempts, runResult,
                           panicMessage, windowShown, devtoolsOpen, tasks,
                           eventsHandled>>]_vars

C4_Witness ==
    /\ urlCalls >= 2
    /\ urlReturned = "http://127.0.0.1:8420"
    /\ \E i \in Done : tasks[i].result.tag = "Err"
    /\ Awaiting # {}

C7_SuspendedProbeBlocksNothing ==
    (phase = "running" /\ Awaiting # {}) =>
        /\ urlCalls < MaxUrlCalls => ENABLED get_backend_url
        /\ Len(tasks) < MaxInvocations => ENABLED check_backend_health_call
        /\ eventsHandled < MaxEvents => ENABLED event_loop_step
        /\ ENABLED run_exit
        /\ \A j \in Awaiting :
              ENABLED (\E answer \in Answers : check_backend_health_resume(j, answer))

C7_Witness ==
    /\ Len(tasks) >= 2
    /\ tasks[1].pc = "awaiting"
    /\ tasks[2].pc = "done"
    /\ urlCalls > 0
    /\ eventsHandled > 0

\* C8: once run() has failed to initialise, the process has panicked with the
\* expect message, after one attempt, with no window shown and no bridge
\* command served, and nothing happens afterwards.
C8_InitFailureIsFatal ==
    /\ [](runResult = "Err" =>
            /\ phase = "panicked"
            /\ Len(panicMessage) >= Len("error while running tauri application")
            /\ SubSeq(panicMessage, 1, Len("error while running tauri application"))
                 = "error while running tauri application"
            /\ initAttempts = 1
            /\ ~windowShown
            /\ tasks = <<>>
            /\ urlCalls = 0
            /\ eventsHandled = 0)
    /\ [][runResult = "Err" => UNCHANGED vars]_vars

C8_Witness ==
    /\ runResult = "Err"
    /\ phase = "panicked"
    /\ panicMessage = "error while running tauri application: CreateWindow"

\* C9: two invocations that got the same answer have the same result, however
\* they interleaved; a finished invocation's result never changes; and a step
\* of an invocation changes no host state.
C9_InvocationsIndependent ==
    /\ [](\A i, j \in Done :
            tasks[i].answer = tasks[j].answer => tasks[i].result = tasks[j].result)
    /\ [][\A i \in Done : tasks'[i] = tasks[i]]_vars
    /\ [][tasks' # tasks => UNCHANGED hostVars]_vars

C9_Witness ==
    /\ Len(tasks) >= 2
    /\ tasks[1].pc = "done" /\ tasks[2].pc = "done"
    /\ tasks[1].answer = tasks[2].answer
    /\ tasks[1].answer.kind = "response" /\ tasks[1].answer.status = 200

\* C10: the address every invocation probes is the value get_backend_url
\* returned followed by "/health".
C10_ProbeAddressAgrees ==
    urlCalls > 0 =>
        \A i \in 1..Len(tasks) : tasks[i].url = urlReturned \o "/health"

C10_Witness == urlCalls > 0 /\ Len(tasks) > 0 /\ tasks[1].pc = "done"

====
